---- MODULE Spec2Model ----
(***************************************************************************)
(* A model of pymel/util/utilitytypes.py: the Singleton and metaStatic     *)
(* metaclasses, metaReadOnlyAttr, ModuleInterceptor and lazyLoadModule.    *)
(*                                                                         *)
(* Python objects are heap cells addressed by a positive object id; the    *)
(* id 0 stands for "no object".  A dict is a function from a subset of     *)
(* Keys to values, a str is a string.                                      *)
(***************************************************************************)
EXTENDS Integers, Sequences, FiniteSets, TLC

VARIABLES
    the_instance,   \* class -> object id stored in cls.__dict__['_the_instance'], 0 when absent
    heap,           \* sequence of allocated objects, [cls, val]; object id = index
    called,         \* class -> "never", "bare" (called, never with a positional
                    \*          argument) or "given" (called with one)
    last,           \* the outcome of the last operation on a Singleton class
    classdef,       \* metaReadOnlyAttr: class -> the classdict its definition gave
    classattrs,     \* metaReadOnlyAttr: class -> [attrs, ro], the __dict__ of the class
    rolast,         \* metaReadOnlyAttr: the outcome of the last class attribute assignment
    descriptors,    \* lazyLoadModule: name -> LazyLoader set on the module class
    moddict,        \* lazyLoadModule: the __dict__ of the module instance
    calls,          \* lazyLoadModule: name -> the values its creators have produced
    accessed,       \* lazyLoadModule: name -> TRUE once the added attribute was read
    lzlast,         \* lazyLoadModule: the outcome of the last operation
    module,         \* ModuleInterceptor: the __dict__ of the wrapped module
    iclast,         \* ModuleInterceptor: the outcome of the last lookup
    doc,            \* LazyDocString: object -> its __doc__
    lazydocs,       \* LazyDocString: the LazyDocString objects created so far
    getterCalls,    \* LazyDocString: the calls the docGetters have received
    ldlast,         \* LazyDocString: the outcome of the last operation
    dlist,          \* defaultlist: the items of the list
    default_factory,\* defaultlist: its default_factory
    asserts,        \* defaultlist: whether the interpreter runs assert statements
    dllast,         \* defaultlist: the outcome of the last operation
    proxy,          \* proxyClass: the generated class
    data,           \* proxyClass: the backing data of the proxy object
    pxlast          \* proxyClass: the outcome of the last operation

singletonVars == <<the_instance, heap, called, last>>
readonlyVars == <<classdef, classattrs, rolast>>
lazyVars == <<descriptors, moddict, calls, accessed, lzlast>>
interceptorVars == <<module, iclast>>
docVars == <<doc, lazydocs, getterCalls, ldlast>>
listVars == <<dlist, default_factory, asserts, dllast>>
proxyVars == <<proxy, data, pxlast>>

vars == <<singletonVars, readonlyVars, lazyVars, interceptorVars,
          docVars, listVars, proxyVars>>

----------------------------------------------------------------------------
(* Bounds of the model *)

\* Objects the heap can hold (the code never allocates more than one per class)
MaxObjects == 4

Keys == {"A", "B"}
Vals == {1, 2}
KwKeys == {"B"}
Strs == {"first", "changed"}

\* The dicts {} , {'A':1}, {'A':1,'B':2}, ... over a key set
DictsOver(ks) == UNION {[d -> Vals] : d \in SUBSET ks}
EmptyDict == <<>>
Dicts == DictsOver(Keys)
KwDicts == DictsOver(KwKeys)

----------------------------------------------------------------------------
(* The classes of the doctests and their method resolution orders *)

SingletonClasses == {"DictSingleton", "DictSingleton2", "StringSingleton"}
StaticClasses == {"FrozenDictSingleton", "StaticTest"}
Classes == SingletonClasses \cup StaticClasses
Builtins == {"dict", "str"}

\* class DictSingleton(dict), class DictSingleton2(DictSingleton), ...
Parent(cls) ==
    CASE cls = "DictSingleton" -> "dict"
      [] cls = "DictSingleton2" -> "DictSingleton"
      [] cls = "StringSingleton" -> "str"
      [] cls = "FrozenDictSingleton" -> "dict"
      [] cls = "StaticTest" -> "FrozenDictSingleton"

\* __metaclass__ of a class (inherited by its subclasses)
Meta(cls) == IF cls \in StaticClasses THEN "metaStatic" ELSE "Singleton"

RECURSIVE BaseOf(_)
BaseOf(cls) == IF cls \in Builtins THEN cls ELSE BaseOf(Parent(cls))

RECURSIVE Mro(_)
Mro(cls) == IF cls \in Builtins THEN <<cls>> ELSE <<cls>> \o Mro(Parent(cls))

----------------------------------------------------------------------------
(* dict and str, as far as the metaclasses use them *)

\* dict.update(d): the entries of d are added, replacing those with the same key
DictUpdate(val, d) ==
    [x \in (DOMAIN val) \cup (DOMAIN d) |-> IF x \in DOMAIN d THEN d[x] ELSE val[x]]

\* dict.__init__(self, *p, **k): an update from the mapping, then from the keywords
DictInit(val, p, k) ==
    DictUpdate(IF p = <<>> THEN val ELSE DictUpdate(val, p[1]), k)

\* dict.__new__(cls, ...) gives an empty dict whatever the arguments,
\* str.__new__(cls, s) the string s and str.__new__(cls) the empty string
BaseNew(base, p) ==
    IF base = "dict" THEN EmptyDict
    ELSE IF p = <<>> THEN "" ELSE p[1]

\* the attributes of the builtin bases that the model looks up
BaseAttrs(base) ==
    IF base = "dict"
    THEN {"clear", "update", "pop", "popitem", "__setitem__", "__delitem__",
          "get", "setdefault", "keys"}
    ELSE {"upper", "join"}

\* truth value of an object: a container is true when it is not empty
Truth(base, val) == IF base = "dict" THEN DOMAIN val # {} ELSE val # ""

----------------------------------------------------------------------------
(* Attribute lookup on an instance *)

\* metaStatic.__new__: the names hidden on the instances of a metaStatic class
HideWithoutClear == {"update", "pop", "popitem", "__setitem__", "__delitem__",
                     "append", "extend"}
_hide == {"clear", "update", "pop", "popitem", "__setitem__", "__delitem__",
          "append", "extend"}

\* The names the model looks up: names of mutating methods of dict and of
\* list, of methods of dict that do not mutate, and a name dict does not have
AttrNames == {"clear", "update", "pop", "popitem", "__setitem__", "__delitem__",
              "append", "extend", "get", "setdefault", "upper"}

\* self.<name> resolved from level lvl of the method resolution order: the
\* __getattribute__ of a metaStatic class refuses the hidden names and passes
\* the others to the next class; the builtin base does the ordinary lookup
RECURSIVE GetAttribute(_, _)
GetAttribute(lvl, name) ==
    IF lvl \in Builtins
    THEN IF name \in BaseAttrs(lvl) THEN "found" ELSE "AttributeError"
    ELSE IF Meta(lvl) = "metaStatic" /\ name \in _hide
         THEN "AttributeError"
         ELSE GetAttribute(Parent(lvl), name)

\* hasattr(self, name) for an instance of cls
HasAttr(cls, name) == GetAttribute(cls, name) = "found"

----------------------------------------------------------------------------
(* Singleton.__new__.<locals>.__new__ *)

\* '_the_instance' in cls.__dict__
AlwaysNew(cls, inst) == FALSE
HasInstanceInherited(cls, inst) == \E i \in 1..Len(Mro(cls)) :
    Mro(cls)[i] \in Classes /\ inst[Mro(cls)[i]] # 0
HasInstance(cls, inst) == inst[cls] # 0

\* cls._the_instance: the attribute of the first class of the method
\* resolution order that has it in its __dict__
RECURSIVE GetTheInstance(_, _)
GetTheInstance(cls, inst) ==
    IF cls \in Builtins THEN 0
    ELSE IF inst[cls] # 0 THEN inst[cls]
    ELSE GetTheInstance(Parent(cls), inst)

\* lvl.__new__(cls, *p, **k), lvl a class of the method resolution order of
\* cls: the generated __new__ of each Singleton class tests the __dict__ of
\* cls and asks the next class for the object; the builtin base allocates.
\* The result is the new _the_instance table, the new heap and the object.
RECURSIVE New(_, _, _, _, _)
New(lvl, cls, p, inst, hp) ==
    IF lvl \in Builtins
    THEN [inst |-> inst,
          heap |-> Append(hp, [cls |-> cls, val |-> BaseNew(lvl, p)]),
          obj |-> Len(hp) + 1]
    ELSE IF ~HasInstance(cls, inst)
         THEN LET r == New(Parent(lvl), cls, p, inst, hp)
                  inst2 == [r.inst EXCEPT ![cls] = r.obj]
              IN [inst |-> inst2, heap |-> r.heap, obj |-> GetTheInstance(cls, inst2)]
         ELSE [inst |-> inst, heap |-> hp, obj |-> GetTheInstance(cls, inst)]

----------------------------------------------------------------------------
(* The generated __init__ of Singleton and of metaStatic *)

\* self.clear() of Singleton.__init__
ClearKeepsContent(val) == val
Clear(val) == EmptyDict

\* `if p` of Singleton.__init__: a positional argument was given
InitGiven(p, k) == p # <<>>

\* `if not self` of metaStatic.__init__: the instance is still empty
Initializable(base, val) == ~Truth(base, val)

\* lvl.__init__(self, *p, **k) for an instance of selfcls holding val, lvl a
\* class of the method resolution order of selfcls.  The result is the new
\* content and the exception raised ("none" when the call returns).
RECURSIVE InitObj(_, _, _, _, _)
InitObj(lvl, selfcls, val, p, k) ==
    IF lvl = "dict" THEN [val |-> DictInit(val, p, k), exc |-> "none"]
    ELSE IF lvl = "str" THEN [val |-> val, exc |-> "none"]
    ELSE IF Meta(lvl) = "Singleton"
    THEN IF InitGiven(p, k)
         THEN LET cleared == IF HasAttr(selfcls, "clear")
                             THEN Clear(val)
                             ELSE InitObj(Parent(lvl), selfcls, val, <<>>, EmptyDict).val
              IN InitObj(Parent(lvl), selfcls, cleared, p, k)
         ELSE [val |-> val, exc |-> "none"]
    ELSE IF p # <<>>
         THEN IF Initializable(BaseOf(selfcls), val)
              THEN InitObj(Parent(lvl), selfcls, val, p, k)
              ELSE [val |-> val, exc |-> "TypeError"]
         ELSE [val |-> val, exc |-> "none"]

\* isinstance(obj, cls) for an object of class objcls
IsInstance(objcls, cls) == \E i \in 1..Len(Mro(objcls)) : Mro(objcls)[i] = cls

----------------------------------------------------------------------------
(* Operations *)

\* Arguments a class of this base is called with: nothing, or one mapping
\* (one string for str), and keywords for a dict
DictPosArgs == {<<>>} \cup {<<d>> : d \in Dicts}
StrPosArgs == {<<>>} \cup {<<s>> : s \in Strs}
PosArgs(base) == IF base = "dict" THEN DictPosArgs ELSE StrPosArgs
KwArgs(base) == IF base = "dict" THEN KwDicts ELSE {EmptyDict}

\* What a caller sees of an operation on the instance of cls: the operation,
\* the attribute name it was given, whether the constructor got a positional
\* argument, the content the arguments of a constructor call that returned
\* describe, how the operation ended ("return" or the exception raised) and
\* the object it returned
Outcome(op, cls, name, given, built, out, obj) ==
    [op |-> op, cls |-> cls, name |-> name, given |-> given, built |-> built,
     out |-> out, obj |-> obj]

\* The content the constructor arguments describe: dict(*p, **k), str(*p)
Built(base, p, k) ==
    IF base = "dict" THEN DictInit(EmptyDict, p, k) ELSE BaseNew(base, p)

\* cls(*p, **k): type.__call__ runs cls.__new__ and, when the object is an
\* instance of cls, the __init__ of the object's class
Construct(cls, p, k) ==
    \E n \in {New(cls, cls, p, the_instance, heap)} :
    \E selfcls \in {n.heap[n.obj].cls} :
    \E i \in {IF IsInstance(selfcls, cls)
              THEN InitObj(selfcls, selfcls, n.heap[n.obj].val, p, k)
              ELSE [val |-> n.heap[n.obj].val, exc |-> "none"]} :
       /\ Len(n.heap) <= MaxObjects
       /\ the_instance' = n.inst
       /\ heap' = [n.heap EXCEPT ![n.obj].val = i.val]
       /\ called' = [called EXCEPT ![cls] =
                        IF p # <<>> \/ @ = "given" THEN "given" ELSE "bare"]
       /\ last' = IF i.exc = "none"
                  THEN Outcome("call", cls, "", p # <<>>,
                               IF p # <<>> THEN Built(BaseOf(cls), p, k) ELSE EmptyDict,
                               "return", n.obj)
                  ELSE Outcome("call", cls, "", p # <<>>, EmptyDict, i.exc, 0)
       /\ UNCHANGED <<readonlyVars, lazyVars, interceptorVars,
                      docVars, listVars, proxyVars>>

\* The class whose __setitem__ / __delitem__ the item statement runs: the
\* first class of the method resolution order that defines one
RECURSIVE ItemSlot(_)
ItemSlot(lvl) ==
    IF lvl \in Builtins THEN lvl
    ELSE IF Meta(lvl) = "metaStatic" THEN "metaStatic" ELSE ItemSlot(Parent(lvl))

\* self[key] = v on the instance of cls
SetItem(cls, key, v) ==
    LET self == the_instance[cls]
        slot == ItemSlot(cls)
    IN /\ self # 0
       /\ heap' = IF slot = "dict"
                  THEN [heap EXCEPT ![self].val = DictUpdate(@, [x \in {key} |-> v])]
                  ELSE heap
       /\ last' = Outcome("setitem", cls, "", FALSE, EmptyDict,
                          IF slot = "dict" THEN "return" ELSE "TypeError", 0)
       /\ UNCHANGED <<the_instance, called>>
       /\ UNCHANGED <<readonlyVars, lazyVars, interceptorVars,
                      docVars, listVars, proxyVars>>

\* del self[key] on the instance of cls
DelItem(cls, key) ==
    LET self == the_instance[cls]
        slot == ItemSlot(cls)
        val == heap[self].val
    IN /\ self # 0
       /\ heap' = IF slot = "dict" /\ key \in DOMAIN val
                  THEN [heap EXCEPT ![self].val = [x \in (DOMAIN val) \ {key} |-> val[x]]]
                  ELSE heap
       /\ last' = Outcome("delitem", cls, "", FALSE, EmptyDict,
                          IF slot # "dict" THEN "TypeError"
                          ELSE IF key \in DOMAIN val THEN "return" ELSE "KeyError", 0)
       /\ UNCHANGED <<the_instance, called>>
       /\ UNCHANGED <<readonlyVars, lazyVars, interceptorVars,
                      docVars, listVars, proxyVars>>

\* self.<name>: an attribute lookup on the instance of cls
GetAttr(cls, name) ==
    /\ the_instance[cls] # 0
    /\ last' = Outcome("getattr", cls, name, FALSE, EmptyDict,
                       IF GetAttribute(cls, name) = "found" THEN "return"
                       ELSE "AttributeError", 0)
    /\ UNCHANGED <<the_instance, heap, called>>
    /\ UNCHANGED <<readonlyVars, lazyVars, interceptorVars,
                   docVars, listVars, proxyVars>>

\* The content of a dict after the builtin method name(key, v) ran on it
DictMethod(name, val, key, v) ==
    CASE name = "clear" -> EmptyDict
      [] name \in {"update", "__setitem__"} -> DictUpdate(val, [x \in {key} |-> v])
      [] name \in {"pop", "popitem", "__delitem__"} ->
            [x \in (DOMAIN val) \ {key} |-> val[x]]
      [] name = "setdefault" ->
            IF key \in DOMAIN val THEN val ELSE DictUpdate(val, [x \in {key} |-> v])
      [] OTHER -> val

\* self.<name>(key, v) once the lookup of the name has given the method: the
\* builtin method of the base runs (popitem removes an entry of its choosing,
\* here the one under key).  A lookup that raises is GetAttr.
CallMethod(cls, name, key, v) ==
    LET self == the_instance[cls]
        val == heap[self].val
        missing == name \in {"pop", "popitem", "__delitem__"} /\ key \notin DOMAIN val
    IN /\ self # 0
       /\ GetAttribute(cls, name) = "found"
       /\ heap' = IF BaseOf(cls) = "dict"
                  THEN [heap EXCEPT ![self].val = DictMethod(name, val, key, v)]
                  ELSE heap
       /\ last' = Outcome("method", cls, name, FALSE, EmptyDict,
                          IF BaseOf(cls) = "dict" /\ missing THEN "KeyError"
                          ELSE "return", 0)
       /\ UNCHANGED <<the_instance, called>>
       /\ UNCHANGED <<readonlyVars, lazyVars, interceptorVars,
                      docVars, listVars, proxyVars>>

----------------------------------------------------------------------------
(* metaReadOnlyAttr: two classes of the metaclass, Derived a subclass of Base *)

ROClasses == {"Base", "Derived"}

\* inspect.getmro(cls)
ROMro(cls) == IF cls = "Derived" THEN <<"Derived", "Base", "object">>
              ELSE <<"Base", "object">>

\* readonly(f): the member carries a __readonly__ attribute.  A member is
\* "func" (a function), "rofunc" (a function marked with @readonly) or a
\* plain value.
readonly(f) == "rofunc"

\* hasattr(classdict[a], '__readonly__') for a member of the class definition
HasReadonlyMark(member) == member = "rofunc"

\* The class definitions the model starts from.  A classdict is
\* [attrs, hastuple, tuple]: the members, whether the definition has a
\* __readonly__ tuple, and the names the tuple lists.
NoTuple == [hastuple |-> FALSE, tuple |-> {}]
Tuple(names) == [hastuple |-> TRUE, tuple |-> names]
ClassDict(attrs, t) == [attrs |-> attrs, hastuple |-> t.hastuple, tuple |-> t.tuple]
BaseDefs ==
    {ClassDict([n \in {"x", "f"} |-> IF n = "x" THEN "0" ELSE f], t) :
        f \in {"func", readonly("func")}, t \in {NoTuple, Tuple({}), Tuple({"x"})}}
DerivedDefs ==
    {ClassDict([n \in {"g"} |-> g], t) :
        g \in {"func", readonly("func")}, t \in {NoTuple, Tuple({"x"})}}

\* metaReadOnlyAttr.__new__: the __readonly__ dict of the new class holds the
\* names of the tuple, the names of the marked members and '__readonly__'
MetaReadOnlyNew(classdict) ==
    LET fromTuple == IF classdict.hastuple THEN classdict.tuple ELSE {}
        fromMarks == {a \in DOMAIN classdict.attrs : HasReadonlyMark(classdict.attrs[a])}
    IN [attrs |-> classdict.attrs,
        ro |-> fromTuple \cup fromMarks \cup {"__readonly__"}]

\* The loop of metaReadOnlyAttr.__setattr__: the read only names of every
\* class of the method resolution order that has a __readonly__ attribute
OwnReadOnlyNames(cls, attrsOf) == attrsOf[cls].ro
ReadOnlyNames(cls, attrsOf) ==
    UNION {attrsOf[ROMro(cls)[i]].ro :
              i \in {j \in 1..Len(ROMro(cls)) : ROMro(cls)[j] \in ROClasses}}

RONames == {"x", "f", "g", "__readonly__"}
ROValues == {"1"}

\* cls.<name> = value: metaReadOnlyAttr.__setattr__
SetAttr(cls, name, value) ==
    /\ IF name \in ReadOnlyNames(cls, classattrs)
       THEN /\ rolast' = [cls |-> cls, name |-> name, value |-> value,
                          out |-> "AttributeError"]
            /\ UNCHANGED classattrs
       ELSE /\ rolast' = [cls |-> cls, name |-> name, value |-> value, out |-> "return"]
            /\ classattrs' = [classattrs EXCEPT ![cls].attrs =
                  [n \in (DOMAIN @) \cup {name} |-> IF n = name THEN value ELSE @[n]]]
    /\ UNCHANGED <<classdef, singletonVars, lazyVars, interceptorVars,
                   docVars, listVars, proxyVars>>

----------------------------------------------------------------------------
(* lazyLoadModule *)

\* Calls of one creator on behalf of one attribute that the model follows
MaxCalls == 3

\* The names added lazily, and the names the contents given to lazyLoadModule
\* hold; the lazily added names are names the contents do not hold
LazyNames == {"foo", "bar"}
ContentNames == {"os"}
Creators == {"str", "list"}
CreatorArgs == {"a", "b"}

\* No LazyLoader under this name
NoLoader == [creator |-> "", args |-> ""]

\* LazyLoader defines __get__ only: it is a descriptor that the __dict__ of
\* the instance takes precedence over
IsDataDescriptorAlways == TRUE
IsDataDescriptor == FALSE

\* LazyLoader.__init__
LazyLoader(name, creator, creatorArgs) == [creator |-> creator, args |-> creatorArgs]

\* self.creator(*self.args, **self.kwargs): the n-th object this attribute's
\* creators have made
Create(loader, n) == [by |-> loader.creator, args |-> loader.args, serial |-> n]

\* LazyLoadModule._addattr(name, creator, *creatorArgs)
AddAttr(name, creator, creatorArgs) ==
    /\ descriptors' = [descriptors EXCEPT ![name] = LazyLoader(name, creator, creatorArgs)]
    /\ lzlast' = [op |-> "addattr", name |-> name, out |-> "return", value |-> <<>>]
    /\ UNCHANGED <<moddict, calls, accessed>>
    /\ UNCHANGED <<singletonVars, readonlyVars, interceptorVars,
                   docVars, listVars, proxyVars>>

\* mod.<name>: the lookup of an attribute on the module instance.  A data
\* descriptor of the class comes first, then the __dict__ of the instance,
\* then any other descriptor of the class, whose __get__ calls the creator and
\* stores the new object in the __dict__ of the instance.
Access(name) ==
    LET loader == IF name \in LazyNames THEN descriptors[name] ELSE NoLoader
        n == IF name \in LazyNames THEN Len(calls[name]) + 1 ELSE 0
    IN /\ IF loader # NoLoader /\ (IsDataDescriptor \/ name \notin DOMAIN moddict)
          THEN /\ n <= MaxCalls
               /\ calls' = [calls EXCEPT ![name] = Append(@, Create(loader, n))]
               /\ moddict' = [x \in (DOMAIN moddict) \cup {name} |->
                                 IF x = name THEN Create(loader, n) ELSE moddict[x]]
               /\ lzlast' = [op |-> "access", name |-> name, out |-> "return",
                             value |-> Create(loader, n)]
          ELSE /\ lzlast' = IF name \in DOMAIN moddict
                            THEN [op |-> "access", name |-> name, out |-> "return",
                                  value |-> moddict[name]]
                            ELSE [op |-> "access", name |-> name,
                                  out |-> "AttributeError", value |-> <<>>]
               /\ UNCHANGED <<moddict, calls>>
       /\ accessed' = IF name \in LazyNames /\ loader # NoLoader
                      THEN [accessed EXCEPT ![name] = TRUE] ELSE accessed
       /\ UNCHANGED descriptors
       /\ UNCHANGED <<singletonVars, readonlyVars, interceptorVars,
                      docVars, listVars, proxyVars>>

----------------------------------------------------------------------------
(* ModuleInterceptor *)

ModuleNames == {"this", "that", "other", "more"}
ModuleValues == {"v1", "v2"}

\* What the callback does when called: it may set the attribute on the module
\* to some value (sets is "" when it does not), and it returns or raises
CallbackBehaviours ==
    {[does |-> d, sets |-> v] : d \in {"return", "raise"}, v \in {""} \cup ModuleValues}

\* getattr(self.module, attr) succeeds
ModuleHas(attr) == attr \in DOMAIN module

\* What the lookup does when the callback raised: the except clause raises
\* the AttributeError of the failed getattr
Propagated(raised) == raised
WhenCallbackRaises(raised) == "AttributeError"

\* ModuleInterceptor.__getattr__(attr), with a callback that behaves as cb
\* (when the module has the attribute the callback is not called, and the
\* step is taken once, under the first behaviour).  The outcome tells the
\* value returned ("None" when the method falls off its end), the number of
\* calls of the callback and their arguments.
GetAttrIntercepted(attr, cb) ==
    /\ IF ModuleHas(attr)
       THEN /\ cb = [does |-> "return", sets |-> ""]
            /\ iclast' = [attr |-> attr, out |-> "return", value |-> module[attr],
                          ncalls |-> 0, cbargs |-> <<>>, cb |-> "none"]
            /\ UNCHANGED module
       ELSE /\ iclast' = [attr |-> attr,
                          out |-> IF cb.does = "raise"
                                  THEN WhenCallbackRaises("ValueError") ELSE "return",
                          value |-> "None", ncalls |-> 1,
                          cbargs |-> <<"self.module", attr>>, cb |-> cb.does]
            /\ module' = IF cb.sets # ""
                         THEN [x \in (DOMAIN module) \cup {attr} |->
                                  IF x = attr THEN cb.sets ELSE module[x]]
                         ELSE module
    /\ UNCHANGED <<singletonVars, readonlyVars, lazyVars,
                   docVars, listVars, proxyVars>>

----------------------------------------------------------------------------
(* LazyDocString: a str whose conversion to a string asks docGetter for the *)
(* docstring and stores it on the documented object                         *)

\* LazyDocString objects and calls of docGetters the model follows
MaxLazyDocs == 1
MaxGetterCalls == 2

\* Objects whose __doc__ can be assigned (a class with a metaclass, a function)
DocObjects == {"TestClass", "aMethod"}
\* Objects whose __doc__ cannot be assigned (new-style classes, instancemethods)
FrozenObjects == {"instancemethod"}
\* getDocStringFromDict(obj) of the example, and a creator taking any arguments
DocGetters == {"getDocStringFromDict", "creator"}
GetterArgs == {<<>>, <<"TestClass">>}
GetterKwargs == {{}, {"k"}}

\* The sliceable iterables given to LazyDocString, of one to four elements
ArgLists ==
    {<<o>> : o \in DocObjects}
    \cup {<<o, g>> : o \in DocObjects \cup FrozenObjects, g \in DocGetters}
    \cup {<<o, g, a>> : o \in DocObjects, g \in DocGetters, a \in GetterArgs}
    \cup {<<o, g, a, k>> : o \in DocObjects, g \in DocGetters,
                           a \in GetterArgs, k \in GetterKwargs}

\* The values of a __doc__ attribute: the docstring of the definition, the
\* placeholder, a LazyDocString object, or a string returned by a docGetter
DocValue(kind, ref, by, args, kwargs) ==
    [kind |-> kind, ref |-> ref, by |-> by, args |-> args, kwargs |-> kwargs]
OwnDoc == DocValue("own", 0, "", <<>>, {})
Placeholder == DocValue("placeholder", 0, "", <<>>, {})
LazyRef(i) == DocValue("lazy", i, "", <<>>, {})

\* A call docGetter(*args, **kwargs)
GetterCall(getter, args, kwargs) == [getter |-> getter, args |-> args, kwargs |-> kwargs]
NoCall == GetterCall("", <<>>, {})

\* getDocStringFromDict takes exactly one positional argument, the creator any
Returns(call) ==
    call.getter = "getDocStringFromDict" => (Len(call.args) = 1 /\ call.kwargs = {})

\* The string a returning docGetter yields for a call
DocOf(call) == DocValue("real", 0, call.getter, call.args, call.kwargs)

\* What __doc__ holds after the assignment in __str__
KeepsOld(old, returned) == old
StoredDoc(old, returned) == returned

\* Names of str that start with an underscore get no wrapper
PublicStringMethods == {"upper", "split"}
PrivateStringMethods == {"__len__"}
IsWrapped(name) == name \in PublicStringMethods

LdOutcome(op, out, obj, lazy, call, value) ==
    [op |-> op, out |-> out, obj |-> obj, lazy |-> lazy, call |-> call, value |-> value]

\* LazyDocString(argList): the str is made of argList, __init__ reads the
\* documented object, the getter and its arguments and sets the placeholder
LazyDocStringNew(argList) ==
    IF Len(argList) < 2
    THEN [exc |-> "LazyDocStringError", doc |-> doc, lazydocs |-> lazydocs]
    ELSE LET documentedObj == argList[1]
             docGetter == argList[2]
             args == IF Len(argList) > 2 THEN argList[3] ELSE <<>>
             kwargs == IF Len(argList) > 2 /\ Len(argList) = 4 THEN argList[4] ELSE {}
         IN  IF documentedObj \in FrozenObjects
             THEN [exc |-> "LazyDocStringError", doc |-> doc, lazydocs |-> lazydocs]
             ELSE [exc |-> "",
                   doc |-> [doc EXCEPT ![documentedObj] = Placeholder],
                   lazydocs |-> Append(lazydocs,
                                       [value |-> argList,
                                        documentedObj |-> documentedObj,
                                        docGetter |-> docGetter,
                                        args |-> args,
                                        kwargs |-> kwargs])]

LazyDocStringInit(argList) ==
    /\ Len(lazydocs) < MaxLazyDocs
    /\ \E n \in {LazyDocStringNew(argList)} :
          /\ doc' = n.doc
          /\ lazydocs' = n.lazydocs
          /\ ldlast' = LdOutcome("init", IF n.exc = "" THEN "ok" ELSE n.exc,
                                 argList[1],
                                 IF n.exc = "" THEN Len(n.lazydocs) ELSE 0,
                                 NoCall, OwnDoc)
    /\ UNCHANGED getterCalls
    /\ UNCHANGED <<singletonVars, readonlyVars, lazyVars, interceptorVars,
                   listVars, proxyVars>>

\* addLazyDocString(object, creator, *creatorArgs, **creatorKwargs)
addLazyDocString(object, creator, creatorArgs, creatorKwargs) ==
    /\ Len(lazydocs) < MaxLazyDocs
    /\ \E n \in {LazyDocStringNew(<<object, creator, creatorArgs, creatorKwargs>>)} :
          /\ lazydocs' = n.lazydocs
          /\ doc' = IF n.exc = ""
                    THEN [n.doc EXCEPT ![object] = LazyRef(Len(n.lazydocs))]
                    ELSE n.doc
          /\ ldlast' = LdOutcome("add", IF n.exc = "" THEN "ok" ELSE n.exc,
                                 object,
                                 IF n.exc = "" THEN Len(n.lazydocs) ELSE 0,
                                 NoCall, OwnDoc)
    /\ UNCHANGED getterCalls
    /\ UNCHANGED <<singletonVars, readonlyVars, lazyVars, interceptorVars,
                   listVars, proxyVars>>

\* __str__ of the LazyDocString i: the call of docGetter, the __doc__ of the
\* documented object afterwards and the string returned
StrOf(i) ==
    LET self == lazydocs[i]
        call == GetterCall(self.docGetter, self.args, self.kwargs)
    IN  IF Returns(call)
        THEN LET stored == StoredDoc(doc[self.documentedObj], DocOf(call))
             IN  [exc |-> "", call |-> call,
                  doc |-> [doc EXCEPT ![self.documentedObj] = stored],
                  value |-> stored]
        ELSE [exc |-> "TypeError", call |-> call, doc |-> doc, value |-> OwnDoc]

\* str(d), repr(d) and d.name(...) for a wrapped name all go through __str__
Convert(op, i) ==
    /\ getterCalls < MaxGetterCalls
    /\ \E r \in {StrOf(i)} :
          /\ doc' = r.doc
          /\ getterCalls' = getterCalls + 1
          /\ ldlast' = LdOutcome(op, IF r.exc = "" THEN "ok" ELSE r.exc,
                                 lazydocs[i].documentedObj, i, r.call, r.value)
    /\ UNCHANGED lazydocs
    /\ UNCHANGED <<singletonVars, readonlyVars, lazyVars, interceptorVars,
                   listVars, proxyVars>>

Str(i) == Convert("str", i)

Repr(i) == Convert("repr", i)

\* d.name(...): the wrapper made by makeMethod for a public name of str, the
\* method of str itself, on the str made of argList, for the other names
StringMethod(i, name) ==
    IF IsWrapped(name)
    THEN Convert(name, i)
    ELSE /\ ldlast' = LdOutcome(name, "ok", lazydocs[i].documentedObj, i, NoCall, OwnDoc)
         /\ UNCHANGED <<doc, lazydocs, getterCalls>>
         /\ UNCHANGED <<singletonVars, readonlyVars, lazyVars, interceptorVars,
                        listVars, proxyVars>>

----------------------------------------------------------------------------
(* defaultlist: a list with a default_factory                               *)

\* Longest list the model follows
MaxListLen == 4

Items == {1, 2}
\* int and None are accepted by __init__, a default_factory that is neither
\* None nor callable is refused
Factories == {"int", "None", "notcallable"}
\* The indexes given to __setitem__ and __getitem__ (-1 is the last item)
Indexes == -1 .. MaxListLen
InitialItems == {<<>>, <<1>>, <<1, 2>>}

\* hasattr(default_factory, '__call__'); int() is 0
FactoryCallable(factory) == factory = "int"
FactoryValue == 0

DlOutcome(op, out, index, item, value) ==
    [op |-> op, out |-> out, index |-> index, item |-> item, value |-> value]

\* list.__setitem__ and list.__getitem__ accept -len(l) <= index < len(l)
InRange(l, index) == -Len(l) <= index /\ index < Len(l)
\* Position in the sequence of the item a list index names
Position(l, index) == IF index >= 0 THEN index + 1 ELSE Len(l) + index + 1

\* [x] * n: n copies of x, none when n is not positive
RECURSIVE Repeat(_, _)
Repeat(x, n) == IF n <= 0 THEN <<>> ELSE <<x>> \o Repeat(x, n - 1)

\* defaultlist(default_factory, *args)
DefaultListInit(factory, args) ==
    /\ IF factory # "None" /\ ~FactoryCallable(factory)
       THEN /\ dllast' = DlOutcome("init", "TypeError", 0, 0, 0)
            /\ UNCHANGED <<dlist, default_factory>>
       ELSE /\ dlist' = args
            /\ default_factory' = factory
            /\ dllast' = DlOutcome("init", "ok", 0, 0, 0)
    /\ UNCHANGED asserts
    /\ UNCHANGED <<singletonVars, readonlyVars, lazyVars, interceptorVars,
                   docVars, proxyVars>>

\* The difference computed when list.__setitem__ raised IndexError
Diff(index, len) == index - len - 1

\* l[index] = item
ListSetItem(index, item) ==
    /\ IF InRange(dlist, index)
       THEN /\ dlist' = [dlist EXCEPT ![Position(dlist, index)] = item]
            /\ dllast' = DlOutcome("setitem", "ok", index, item, 0)
       ELSE \E diff \in {Diff(index, Len(dlist))} :
              IF asserts /\ ~(diff > 0)
              THEN /\ dllast' = DlOutcome("setitem", "AssertionError", index, item, 0)
                   /\ UNCHANGED dlist
              ELSE IF ~FactoryCallable(default_factory)
              THEN /\ dllast' = DlOutcome("setitem", "TypeError", index, item, 0)
                   /\ UNCHANGED dlist
              ELSE /\ dlist' = dlist \o Repeat(FactoryValue, diff) \o <<item>>
                   /\ Len(dlist') <= MaxListLen
                   /\ dllast' = DlOutcome("setitem", "ok", index, item, 0)
    /\ UNCHANGED <<default_factory, asserts>>
    /\ UNCHANGED <<singletonVars, readonlyVars, lazyVars, interceptorVars,
                   docVars, proxyVars>>

\* The result of l[index]: the item, the default value, or the TypeError of
\* calling None
GetItemOf(l, factory, index) ==
    IF InRange(l, index)
    THEN [out |-> "ok", value |-> l[Position(l, index)]]
    ELSE IF FactoryCallable(factory)
         THEN [out |-> "ok", value |-> FactoryValue]
         ELSE [out |-> "TypeError", value |-> 0]

\* l[index]
ListGetItem(index) ==
    /\ \E r \in {GetItemOf(dlist, default_factory, index)} :
          dllast' = DlOutcome("getitem", r.out, index, 0, r.value)
    /\ UNCHANGED <<dlist, default_factory, asserts>>
    /\ UNCHANGED <<singletonVars, readonlyVars, lazyVars, interceptorVars,
                   docVars, proxyVars>>

----------------------------------------------------------------------------
(* proxyClass: a class whose methods are those of a wrapped class, applied  *)
(* to data kept on the proxy object                                         *)

\* Longest backing data the model follows
MaxDataLen == 3

\* The wrapped classes: unicode, which is immutable, and list, which is not
WrappedClasses == {"unicode", "list"}
Chars == {"a", "A"}
\* The values given to the backing data (of the kind of the wrapped class)
DataValues == {<<>>, <<"a">>, <<"a", "A">>}
NoData == [set |-> FALSE, val |-> <<>>]
DataOf(v) == [set |-> TRUE, val |-> v]

\* cls.__dict__: the names and whether the value is a method or the docstring
ClsDict(cls) ==
    IF cls = "unicode"
    THEN [n \in {"__new__", "__getattribute__", "__doc__", "upper",
                 "__getslice__", "__len__"} |->
             IF n = "__doc__" THEN "string" ELSE "method"]
    ELSE [n \in {"__new__", "__init__", "__getattribute__", "__doc__",
                 "append", "__len__"} |->
             IF n = "__doc__" THEN "string" ELSE "method"]

\* The values of remove given to proxyClass
Removes == {{}, {"__getslice__", "__doc__"}, {"append"}}
\* dataAttrName and dataFuncName; "" stands for None
DataAttrNames == {"", "_data"}
DataFuncNames == {"", "name"}

\* What a method returns: a string or list, an integer, or None
Ret(kind, seq, n) == [kind |-> kind, seq |-> seq, n |-> n]
NoRet == Ret("none", <<>>, 0)

UpperChar(c) == IF c = "a" THEN "A" ELSE c

\* method(target, arg) of the wrapped class: what it returns and what the
\* target is afterwards
MethodOn(name, target, arg) ==
    IF name = "upper"
    THEN [ret |-> Ret("seq", [i \in 1..Len(target) |-> UpperChar(target[i])], 0),
          after |-> target]
    ELSE IF name = "__getslice__"
    THEN [ret |-> Ret("seq", SubSeq(target, 1, IF Len(target) > 0 THEN 1 ELSE 0), 0),
          after |-> target]
    ELSE IF name = "__len__"
    THEN [ret |-> Ret("int", <<>>, Len(target)), after |-> target]
    ELSE IF name = "append"
    THEN [ret |-> NoRet, after |-> Append(target, arg)]
    ELSE [ret |-> NoRet, after |-> target]

\* method.__name__ exists for the methods, not for the docstring
HasName(kind) == kind = "method"

\* The names proxyClass never copies, and those of the caller
GivenRemoveOnly(remove) == remove
RemoveList(remove) ==
    {"__new__", "__init__", "__getattribute__", "__getattr__"} \cup remove

NoProxy ==
    [made |-> FALSE, cls |-> "", dataAttrName |-> "", dataFuncName |-> "",
     sourceIsImmutable |-> TRUE, remove |-> {}, names |-> {}]

PxOutcome(op, out, name, arg, ret) ==
    [op |-> op, out |-> out, name |-> name, arg |-> arg, ret |-> ret]

\* proxyClass(cls, classname, dataAttrName, dataFuncName, remove,
\* sourceIsImmutable), and a new object of the class returned
proxyClass(cls, dataAttrName, dataFuncName, remove, sourceIsImmutable) ==
    /\ IF asserts /\ (dataAttrName # "" /\ dataFuncName # "")
       THEN /\ pxlast' = PxOutcome("proxyClass", "AssertionError", "", "", NoRet)
            /\ UNCHANGED <<proxy, data>>
       ELSE IF dataAttrName = "" /\ dataFuncName = ""
       THEN /\ pxlast' = PxOutcome("proxyClass", "TypeError", "", "", NoRet)
            /\ UNCHANGED <<proxy, data>>
       ELSE /\ proxy' = [made |-> TRUE,
                         cls |-> cls,
                         dataAttrName |-> dataAttrName,
                         dataFuncName |-> IF dataAttrName # "" THEN "" ELSE dataFuncName,
                         sourceIsImmutable |-> sourceIsImmutable,
                         remove |-> remove,
                         names |-> {n \in DOMAIN ClsDict(cls) :
                                       /\ n \notin RemoveList(remove)
                                       /\ HasName(ClsDict(cls)[n])}]
            /\ data' = NoData
            /\ pxlast' = PxOutcome("proxyClass", "ok", "", "", NoRet)
    /\ UNCHANGED <<singletonVars, readonlyVars, lazyVars, interceptorVars,
                   docVars, listVars>>

\* The backing data is given a value: the attribute dataAttrName is assigned,
\* or what the method dataFuncName returns changes
SetData(v) ==
    /\ proxy.made
    /\ data' = DataOf(v)
    /\ pxlast' = PxOutcome("setdata", "ok", "", "", NoRet)
    /\ UNCHANGED proxy
    /\ UNCHANGED <<singletonVars, readonlyVars, lazyVars, interceptorVars,
                   docVars, listVars>>

\* The object the wrapped method is called on: cls(data), an object of its
\* own, when the source is immutable, and the backing data itself otherwise
IsBackingObject(sourceIsImmutable) == ~sourceIsImmutable

\* wrapper(self, *args) for the method name of the generated class
wrapper(name, arg) ==
    /\ proxy.made
    /\ name \in proxy.names
    /\ IF ~data.set
       THEN /\ pxlast' = PxOutcome("call", "AttributeError", name, arg, NoRet)
            /\ UNCHANGED data
       ELSE \E r \in {MethodOn(name, data.val, arg)} :
              /\ Len(r.after) <= MaxDataLen
              /\ data' = IF IsBackingObject(proxy.sourceIsImmutable)
                         THEN DataOf(r.after)
                         ELSE data
              /\ pxlast' = PxOutcome("call", "ok", name, arg, r.ret)
    /\ UNCHANGED proxy
    /\ UNCHANGED <<singletonVars, readonlyVars, lazyVars, interceptorVars,
                   docVars, listVars>>

\* Every name a wrapped class has or a caller removes
ProxyNames == UNION {DOMAIN ClsDict(c) : c \in WrappedClasses} \cup {"__getattr__"}

----------------------------------------------------------------------------
(* Specifications: Singleton classes on dict and on str, a Singleton class   *)
(* and its subclass, the metaStatic classes, the classes of                *)
(* metaReadOnlyAttr, a lazy module and a module interceptor                *)

InitSingleton ==
    /\ the_instance = [c \in Classes |-> 0]
    /\ heap = <<>>
    /\ called = [c \in Classes |-> "never"]
    /\ last = Outcome("none", "", "", FALSE, EmptyDict, "none", 0)

\* The classes Base and Derived(Base), as metaReadOnlyAttr.__new__ makes them
\* from the definitions base and derived
InitReadOnly(base, derived) ==
    /\ classdef = [c \in ROClasses |-> IF c = "Base" THEN base ELSE derived]
    /\ classattrs = [c \in ROClasses |->
                        MetaReadOnlyNew(IF c = "Base" THEN base ELSE derived)]
    /\ rolast = [cls |-> "", name |-> "", value |-> "", out |-> "none"]

\* lazyLoadModule(name, contents)
InitLazy ==
    /\ descriptors = [n \in LazyNames |-> NoLoader]
    /\ moddict = [n \in ContentNames |-> "module"]
    /\ calls = [n \in LazyNames |-> <<>>]
    /\ accessed = [n \in LazyNames |-> FALSE]
    /\ lzlast = [op |-> "none", name |-> "", out |-> "none", value |-> <<>>]

\* ModuleInterceptor(moduleName, callback)
InitInterceptor ==
    /\ module = [n \in {"that"} |-> "v1"]
    /\ iclast = [attr |-> "", out |-> "none", value |-> "", ncalls |-> 0,
                 cbargs |-> <<>>, cb |-> "none"]

\* No LazyDocString yet: every object has the docstring of its definition
InitDoc ==
    /\ doc = [o \in DocObjects |-> OwnDoc]
    /\ lazydocs = <<>>
    /\ getterCalls = 0
    /\ ldlast = LdOutcome("none", "none", "", 0, NoCall, OwnDoc)

\* defaultlist(int), in an interpreter that runs assert statements or not
InitList(runsAsserts) ==
    /\ dlist = <<>>
    /\ default_factory = "int"
    /\ asserts = runsAsserts
    /\ dllast = DlOutcome("none", "none", 0, 0, 0)

\* No class generated yet
InitProxy ==
    /\ proxy = NoProxy
    /\ data = NoData
    /\ pxlast = PxOutcome("none", "none", "", "", NoRet)

Init ==
    /\ InitSingleton
    /\ InitReadOnly(ClassDict([n \in {"x", "f"} |-> IF n = "x" THEN "0" ELSE "func"],
                              NoTuple),
                    ClassDict([n \in {"g"} |-> "func"], NoTuple))
    /\ InitLazy
    /\ InitInterceptor
    /\ InitDoc
    /\ InitList(TRUE)
    /\ InitProxy

\* The same, with an interpreter that runs assert statements or one started
\* with -O, which does not
InitInterpreters ==
    /\ InitSingleton
    /\ InitReadOnly(ClassDict([n \in {"x", "f"} |-> IF n = "x" THEN "0" ELSE "func"],
                              NoTuple),
                    ClassDict([n \in {"g"} |-> "func"], NoTuple))
    /\ InitLazy
    /\ InitInterceptor
    /\ InitDoc
    /\ \E runsAsserts \in BOOLEAN : InitList(runsAsserts)
    /\ InitProxy

InitClasses ==
    /\ InitSingleton
    /\ \E base \in BaseDefs, derived \in DerivedDefs : InitReadOnly(base, derived)
    /\ InitLazy
    /\ InitInterceptor
    /\ InitDoc
    /\ InitList(TRUE)
    /\ InitProxy

NextSingleton == \E cls \in {"DictSingleton", "StringSingleton"} :
    \/ \E p \in PosArgs(BaseOf(cls)), k \in KwArgs(BaseOf(cls)) : Construct(cls, p, k)
    \/ \E key \in Keys, v \in Vals : SetItem(cls, key, v)
    \/ \E key \in Keys : DelItem(cls, key)

NextSubclass == \E cls \in {"DictSingleton", "DictSingleton2"} :
    \/ \E p \in PosArgs(BaseOf(cls)), k \in KwArgs(BaseOf(cls)) : Construct(cls, p, k)
    \/ \E key \in Keys, v \in Vals : SetItem(cls, key, v)
    \/ \E key \in Keys : DelItem(cls, key)

NextStatic == \E cls \in StaticClasses :
    \/ \E p \in PosArgs(BaseOf(cls)), k \in KwArgs(BaseOf(cls)) : Construct(cls, p, k)
    \/ \E key \in Keys, v \in Vals : SetItem(cls, key, v)
    \/ \E key \in Keys : DelItem(cls, key)
    \/ \E name \in AttrNames : GetAttr(cls, name)
    \/ \E name \in AttrNames, key \in Keys, v \in Vals : CallMethod(cls, name, key, v)

NextReadOnly == \E cls \in ROClasses, name \in RONames, value \in ROValues :
    SetAttr(cls, name, value)

NextLazy ==
    \/ \E name \in LazyNames, creator \in Creators, creatorArgs \in CreatorArgs :
          AddAttr(name, creator, creatorArgs)
    \/ \E name \in LazyNames \cup ContentNames : Access(name)

NextInterceptor ==
    \E attr \in ModuleNames, cb \in CallbackBehaviours : GetAttrIntercepted(attr, cb)

NextDoc ==
    \/ \E argList \in ArgLists : LazyDocStringInit(argList)
    \/ \E object \in DocObjects \cup FrozenObjects, creator \in DocGetters,
          creatorArgs \in GetterArgs, creatorKwargs \in GetterKwargs :
          addLazyDocString(object, creator, creatorArgs, creatorKwargs)
    \/ \E i \in 1..Len(lazydocs) : Str(i)
    \/ \E i \in 1..Len(lazydocs) : Repr(i)
    \/ \E i \in 1..Len(lazydocs),
          name \in PublicStringMethods \cup PrivateStringMethods : StringMethod(i, name)

NextList ==
    \/ \E factory \in Factories, args \in InitialItems : DefaultListInit(factory, args)
    \/ \E index \in Indexes, item \in Items : ListSetItem(index, item)
    \/ \E index \in Indexes : ListGetItem(index)

NextProxy ==
    \/ \E cls \in WrappedClasses, dataAttrName \in DataAttrNames,
          dataFuncName \in DataFuncNames, remove \in Removes,
          sourceIsImmutable \in BOOLEAN :
          proxyClass(cls, dataAttrName, dataFuncName, remove, sourceIsImmutable)
    \/ \E v \in DataValues : SetData(v)
    \/ \E name \in ProxyNames, arg \in Chars : wrapper(name, arg)

SpecSingleton == Init /\ [][NextSingleton]_vars

SpecSubclass == Init /\ [][NextSubclass]_vars

SpecStatic == Init /\ [][NextStatic]_vars

SpecReadOnly == InitClasses /\ [][NextReadOnly]_vars

SpecLazy == Init /\ [][NextLazy]_vars

SpecInterceptor == Init /\ [][NextInterceptor]_vars

SpecDoc == Init /\ [][NextDoc]_vars

SpecList == InitInterpreters /\ [][NextList]_vars

SpecProxy == InitInterpreters /\ [][NextProxy]_vars

----------------------------------------------------------------------------
(* Properties of the Singleton classes *)

\* The objects of class cls on the heap
InstancesOf(cls) == {o \in 1..Len(heap) : heap[o].cls = cls}

\* The content of the instance of cls
Content(cls) == heap[the_instance[cls]].val

\* C1: a class whose metaclass is Singleton has at most one instance, the
\* instance exists as soon as the class has been called once (the first call
\* creates it) and every constructor call returns it.
C1_OneInstance ==
    \A cls \in Classes :
        /\ Cardinality(InstancesOf(cls)) <= 1
        /\ (called[cls] # "never") <=> (the_instance[cls] # 0)
        /\ the_instance[cls] # 0 => InstancesOf(cls) = {the_instance[cls]}
        /\ (last.op = "call" /\ last.cls = cls /\ last.out = "return")
              => last.obj = the_instance[cls]

\* C1 witness: both classes have been called, the last call returned the
\* instance of DictSingleton, which was not the first object allocated
C1_Witness ==
    /\ last.op = "call" /\ last.cls = "DictSingleton" /\ ~last.given
    /\ last.obj = 2
    /\ called["DictSingleton"] = "given"
    /\ Len(heap) = 2

\* C2: on a Singleton class built on dict, a constructor call with a positional
\* argument leaves the instance with exactly the content built from the
\* arguments, a constructor call without one leaves the content of an existing
\* instance as it was, and the call returns the one instance.
C2_ContentReplaced ==
    /\ [](\A cls \in {"DictSingleton", "DictSingleton2"} :
            (last.op = "call" /\ last.cls = cls /\ last.given)
               => /\ last.out = "return"
                  /\ last.obj = the_instance[cls]
                  /\ Content(cls) = last.built)
    /\ [][\A cls \in {"DictSingleton", "DictSingleton2"} :
            (last'.op = "call" /\ last'.cls = cls /\ ~last'.given /\ the_instance[cls] # 0)
               => /\ the_instance'[cls] = the_instance[cls]
                  /\ heap'[the_instance[cls]] = heap[the_instance[cls]]]_vars

\* C2 witness: the instance was allocated second, has been given content and
\* the last call replaced it by the one entry 'B': 2
C2_Witness ==
    /\ last.op = "call" /\ last.cls = "DictSingleton" /\ last.given
    /\ last.built = [x \in {"B"} |-> 2]
    /\ Content("DictSingleton") = [x \in {"B"} |-> 2]

\* C3: the instance of a Singleton class built on str has the value given to
\* the first constructor call (the empty string when it got none) and keeps
\* it: every later call returns the same object with the same value.
C3_FirstValueKept ==
    [][LET c == "StringSingleton" IN
       /\ (the_instance[c] = 0 /\ the_instance'[c] # 0)
             => /\ last'.op = "call" /\ last'.cls = c
                /\ heap'[the_instance'[c]].val = (IF last'.given THEN last'.built ELSE "")
       /\ the_instance[c] # 0
             => /\ the_instance'[c] = the_instance[c]
                /\ heap'[the_instance[c]] = heap[the_instance[c]]
                /\ (last'.op = "call" /\ last'.cls = c)
                      => (last'.out = "return" /\ last'.obj = the_instance[c])]_vars

\* C3 witness: the instance was created with 'first' and the last call, given
\* 'changed', returned it still holding 'first'
C3_Witness ==
    /\ last.op = "call" /\ last.cls = "StringSingleton" /\ last.given
    /\ last.built = "changed"
    /\ last.obj = the_instance["StringSingleton"]
    /\ Content("StringSingleton") = "first"

\* C4: a subclass of a Singleton class has its own single instance: a call
\* of the subclass returns an object of the subclass, always the same and
\* never the parent's instance, and no operation on the subclass changes the
\* parent's instance or its content.
C4_SubclassOwnInstance ==
    /\ [](LET sub == "DictSingleton2"
              par == "DictSingleton" IN
          /\ Cardinality(InstancesOf(sub)) <= 1
          /\ the_instance[sub] # 0
                => (the_instance[sub] # the_instance[par] /\ heap[the_instance[sub]].cls = sub)
          /\ the_instance[par] # 0 => heap[the_instance[par]].cls = par
          /\ (last.op = "call" /\ last.cls = sub)
                => (last.out = "return" /\ last.obj = the_instance[sub]))
    /\ [][LET sub == "DictSingleton2"
              par == "DictSingleton" IN
          /\ the_instance[sub] # 0 => the_instance'[sub] = the_instance[sub]
          /\ last'.cls = sub
                => /\ the_instance'[par] = the_instance[par]
                   /\ the_instance[par] # 0
                         => heap'[the_instance[par]] = heap[the_instance[par]]]_vars

\* C4 witness: the parent was constructed first, then the subclass, and the
\* two instances hold different contents
C4_Witness ==
    /\ the_instance["DictSingleton"] = 1
    /\ the_instance["DictSingleton2"] = 2
    /\ last.op = "call" /\ last.cls = "DictSingleton2" /\ last.given
    /\ Content("DictSingleton") = [x \in {"A"} |-> 1]
    /\ Content("DictSingleton2") = [x \in {"B"} |-> 2]

----------------------------------------------------------------------------
(* Properties of the metaStatic classes *)

\* C5: once a metaStatic class has been called with a positional argument,
\* every later call with a positional argument raises TypeError and leaves
\* the heap as it was.
C5_InitOnce ==
    [][\A cls \in StaticClasses :
          (called[cls] = "given" /\ last'.op = "call" /\ last'.cls = cls /\ last'.given)
             => (last'.out = "TypeError" /\ heap' = heap)]_vars

\* C6: once the instance of a metaStatic class has been initialized (the
\* class was called with a positional argument), no operation changes its
\* content.
C6_Immutable ==
    [][\A cls \in StaticClasses :
          called[cls] = "given"
             => /\ the_instance'[cls] = the_instance[cls]
                /\ heap'[the_instance[cls]] = heap[the_instance[cls]]]_vars

\* The names the claim C7 lists
C7_Names == {"clear", "update", "pop", "popitem", "__setitem__", "__delitem__",
             "append", "extend"}

\* C7: on the instance of a metaStatic class an item assignment and an item
\* deletion raise TypeError, the lookup of a listed name raises
\* AttributeError, the lookup of another name ends as it does on dict, and
\* none of these changes the heap.
C7_Refusals ==
    /\ [](last.cls \in StaticClasses =>
            /\ last.op \in {"setitem", "delitem"} => last.out = "TypeError"
            /\ (last.op = "getattr" /\ last.name \in C7_Names)
                  => last.out = "AttributeError"
            /\ (last.op = "getattr" /\ last.name \notin C7_Names)
                  => last.out = (IF last.name \in BaseAttrs("dict")
                                 THEN "return" ELSE "AttributeError"))
    /\ [][(last'.cls \in StaticClasses /\ last'.op \in {"setitem", "delitem", "getattr"})
             => (heap' = heap /\ the_instance' = the_instance)]_vars

\* C7 witness: the instance holds 'A': 1 and the lookup of clear on it has
\* just raised AttributeError
C7_Witness ==
    /\ last.op = "getattr" /\ last.cls = "FrozenDictSingleton"
    /\ last.name = "clear" /\ last.out = "AttributeError"
    /\ Content("FrozenDictSingleton") = [x \in {"A"} |-> 1]

----------------------------------------------------------------------------
(* Properties of metaReadOnlyAttr *)

\* The names a class definition makes read only: those of its __readonly__
\* tuple, those of its members marked with @readonly, and '__readonly__'
DeclaredReadOnly(c) ==
    (IF classdef[c].hastuple THEN classdef[c].tuple ELSE {})
    \cup {a \in DOMAIN classdef[c].attrs : classdef[c].attrs[a] = "rofunc"}
    \cup {"__readonly__"}

\* The names read only in cls or in a class of its method resolution order
ReadOnlyFor(cls) ==
    IF cls = "Derived" THEN DeclaredReadOnly("Derived") \cup DeclaredReadOnly("Base")
    ELSE DeclaredReadOnly("Base")

\* C8: assigning on a class of metaReadOnlyAttr a name that is read only in
\* the class or in a class of its method resolution order raises
\* AttributeError and changes no attribute; assigning any other name returns
\* and the class then has the value under that name.
C8_ReadOnlyEnforced ==
    /\ [](rolast.out # "none" =>
            IF rolast.name \in ReadOnlyFor(rolast.cls)
            THEN rolast.out = "AttributeError"
            ELSE /\ rolast.out = "return"
                 /\ rolast.name \in DOMAIN classattrs[rolast.cls].attrs
                 /\ classattrs[rolast.cls].attrs[rolast.name] = rolast.value)
    /\ [][rolast'.name \in ReadOnlyFor(rolast'.cls) => classattrs' = classattrs]_vars

\* C8 witness: f is read only in Base alone (marked with @readonly there) and
\* its assignment on Derived has just raised AttributeError
C8_Witness ==
    /\ rolast.cls = "Derived" /\ rolast.name = "f" /\ rolast.out = "AttributeError"
    /\ "f" \notin DeclaredReadOnly("Derived")
    /\ classdef["Base"].attrs["f"] = "rofunc"
    /\ "f" \notin DOMAIN classattrs["Derived"].attrs

----------------------------------------------------------------------------
(* Properties of lazyLoadModule *)

\* C9: _addattr calls no creator and creates nothing; the first access of an
\* added attribute calls the creator once, with the arguments given to
\* _addattr, and returns what it made; every later access returns that same
\* object and calls no creator, so a creator is called at most once for an
\* attribute.
C9_CreatedOnFirstAccess ==
    /\ [](\A n \in LazyNames : Len(calls[n]) <= 1)
    /\ [][\A n \in LazyNames :
            /\ lzlast'.op = "addattr" => (calls' = calls /\ moddict' = moddict)
            /\ (lzlast'.op = "access" /\ lzlast'.name = n /\ descriptors[n] # NoLoader)
                  => IF ~accessed[n]
                     THEN /\ calls[n] = <<>>
                          /\ Len(calls'[n]) = 1
                          /\ calls'[n][1].by = descriptors[n].creator
                          /\ calls'[n][1].args = descriptors[n].args
                          /\ lzlast'.out = "return"
                          /\ lzlast'.value = calls'[n][1]
                     ELSE /\ calls' = calls
                          /\ Len(calls[n]) = 1
                          /\ lzlast'.out = "return"
                          /\ lzlast'.value = calls[n][1]]_vars

\* C9 witness: foo was added with str('a') and read, then added again with
\* list('b'); the last access returned the object str('a') made, and
\* no creator was called a second time
C9_Witness ==
    /\ lzlast.op = "access" /\ lzlast.name = "foo"
    /\ accessed["foo"]
    /\ calls["foo"] = <<[by |-> "str", args |-> "a", serial |-> 1]>>
    /\ descriptors["foo"] = [creator |-> "list", args |-> "b"]
    /\ lzlast.value = calls["foo"][1]
    /\ calls["bar"] = <<>> /\ descriptors["bar"] # NoLoader

----------------------------------------------------------------------------
(* Properties of ModuleInterceptor *)

\* C10: the lookup of an attribute the wrapped module has returns the
\* module's value, calls no callback and leaves the module as it is; the
\* lookup of an attribute the module lacks calls the callback once, with the
\* module and the name, and raises AttributeError when the callback raised.
C10_CallbackOnMissing ==
    [][LET a == iclast'.attr IN
       IF a \in DOMAIN module
       THEN /\ iclast'.out = "return"
            /\ iclast'.value = module[a]
            /\ iclast'.ncalls = 0
            /\ module' = module
       ELSE /\ iclast'.ncalls = 1
            /\ iclast'.cbargs = <<"self.module", a>>
            /\ iclast'.cb = "raise" => iclast'.out = "AttributeError"]_vars

\* C10 witness: the module lacks 'this', the callback was called once for it
\* and raised, and the lookup raised AttributeError
C10_Witness ==
    /\ iclast.attr = "this" /\ "this" \notin DOMAIN module
    /\ iclast.ncalls = 1 /\ iclast.cb = "raise"
    /\ iclast.out = "AttributeError"
    /\ "other" \in DOMAIN module

----------------------------------------------------------------------------
(* Properties of LazyDocString *)

\* The call that the iterable given at creation asks for: the getter, the
\* positional arguments and the keyword arguments, where given
GivenCall(argList) ==
    GetterCall(argList[2],
               IF Len(argList) >= 3 THEN argList[3] ELSE <<>>,
               IF Len(argList) >= 4 THEN argList[4] ELSE {})

----------------------------------------------------------------------------
(* Properties of defaultlist *)

\* C12: with a callable default_factory, assigning an item at an index at or
\* past the end of the list succeeds, the list then reaches up to that index,
\* the items it had are unchanged, the gap holds values of default_factory,
\* and reading the index gives the assigned item
C12_GrowsOnAssign ==
    [][(/\ dllast'.op = "setitem"
        /\ dllast'.index >= Len(dlist)
        /\ FactoryCallable(default_factory)) =>
            /\ dllast'.out = "ok"
            /\ Len(dlist') = dllast'.index + 1
            /\ \A i \in 1..Len(dlist) : dlist'[i] = dlist[i]
            /\ \A i \in (Len(dlist) + 1)..dllast'.index : dlist'[i] = FactoryValue
            /\ GetItemOf(dlist', default_factory', dllast'.index)
                  = [out |-> "ok", value |-> dllast'.item]
      ]_vars

----------------------------------------------------------------------------
(* Properties of proxyClass *)

\* The generated class has no name that proxyClass or its caller removes
NothingRemovedCarried ==
    (pxlast'.op = "proxyClass" /\ pxlast'.out = "ok") =>
        /\ proxy'.names \cap {"__new__", "__init__", "__getattribute__",
                              "__getattr__"} = {}
        /\ proxy'.names \cap proxy'.remove = {}
        /\ proxy'.names \subseteq DOMAIN ClsDict(proxy'.cls)

\* A call that found the backing data returns what the method of the wrapped
\* class returns on the data as it is when the call is made
ReturnsOnCurrentData ==
    (pxlast'.op = "call" /\ data.set) =>
        /\ pxlast'.out = "ok"
        /\ pxlast'.ret = MethodOn(pxlast'.name, data.val, pxlast'.arg).ret

\* C13 as stated: every proxied call returns what the method of the wrapped
\* class returns on the current backing data and leaves the backing data as
\* it was, and the generated class carries no removed name
C13_ProxyNeverWrites ==
    [][/\ NothingRemovedCarried
       /\ ReturnsOnCurrentData
       /\ pxlast'.op = "call" => data' = data
      ]_vars

\* C13 amended: the backing data is left as it was when the source is
\* immutable, where the method runs on cls(data); when it is not, the method
\* runs on the backing data itself, which afterwards is what the method made
\* of it
C13_ProxyDelegates ==
    [][/\ NothingRemovedCarried
       /\ ReturnsOnCurrentData
       /\ (pxlast'.op = "call" /\ proxy.sourceIsImmutable) => data' = data
       /\ (pxlast'.op = "call" /\ ~proxy.sourceIsImmutable /\ data.set) =>
             data' = DataOf(MethodOn(pxlast'.name, data.val, pxlast'.arg).after)
      ]_vars

\* A proxy of unicode made without translate-like names, whose data was
\* changed, answered upper() on the data it has now
C13_Witness ==
    /\ proxy.made
    /\ proxy.cls = "unicode"
    /\ proxy.remove = {"__getslice__", "__doc__"}
    /\ proxy.dataFuncName = "name"
    /\ data = DataOf(<<"a", "A">>)
    /\ pxlast.op = "call"
    /\ pxlast.name = "upper"
    /\ pxlast.ret = Ret("seq", <<"A", "A">>, 0)

====
